---------------------------- MODULE Spec2Model ----------------------------
(***************************************************************************)
(* Model of the Blockchain class of src/src/blockchain.js: the in-memory   *)
(* chain, block admission (_addBlock), the time-windowed ownership         *)
(* verification (requestMessageOwnershipVerification / submitStar), the    *)
(* chain validator and the query methods.                                  *)
(*                                                                         *)
(* Strings are sequences of character codes: the decimal digits are the    *)
(* codes 0..9, and the other characters used get the codes named below.    *)
(***************************************************************************)
EXTENDS Integers, Sequences, FiniteSets, TLC

VARIABLES
    pc,         \* "new" before `new Blockchain()`, "ready" once the constructor returned
    chain,      \* this.chain: the sequence of blocks
    height,     \* this.height
    nowMs,      \* the wall clock, what new Date().getTime() returns (milliseconds)
    tampers,    \* how many in-place mutations an outside party has performed
    last,       \* the most recent call of a method and how its promise settled
    inflight    \* the submissions of callers that do not wait for one another

vars == <<pc, chain, height, nowMs, tampers, last, inflight>>

---------------------------------------------------------------------------
(* Bounds of the model *)

\* the longest chain explored (genesis block included)
MaxChain == 3

\* the clock reading, in seconds, at which the model starts
EpochSeconds == 1000

\* the number of in-place mutations an outside party performs (SpecTamper)
MaxTampers == 2

---------------------------------------------------------------------------
(* Characters and strings *)

\* ':' gets the first code after the digits; the other characters follow it
COLON == 10
MINUS == COLON + 1   \* '-'
ChA   == COLON + 2   \* letters, used in identities
ChB   == COLON + 3
ChR   == COLON + 4   \* stands for the text "starRegistry"
ChS   == COLON + 5   \* a character of a star description
ChT   == COLON + 6
ChG   == COLON + 7   \* stands for the text "Genesis Block"
ChX   == COLON + 8   \* a character that is neither a digit nor a separator

Digit == 0..9

\* Number.prototype.toString() of a non-negative integer: its decimal digits
RECURSIVE NumToString(_)
NumToString(n) ==
    IF n < 10 THEN <<n>> ELSE NumToString(n \div 10) \o <<n % 10>>

\* String.prototype.slice(0, -3): the string without its last three characters
SliceMinus3(s) ==
    IF Len(s) <= 3 THEN <<>> ELSE SubSeq(s, 1, Len(s) - 3)

\* new Date().getTime().toString().slice(0, -3)
TimeStamp(ms) == SliceMinus3(NumToString(ms))

\* String.prototype.split(':'): the fields between the separators
RECURSIVE SplitFrom(_, _, _)
SplitFrom(s, i, cur) ==
    IF i > Len(s) THEN <<cur>>
    ELSE IF s[i] = COLON THEN <<cur>> \o SplitFrom(s, i + 1, <<>>)
    ELSE SplitFrom(s, i + 1, Append(cur, s[i]))

Split(s) == SplitFrom(s, 1, <<>>)

\* the value of the longest prefix of digits of s starting at i, given acc so far
RECURSIVE DigitsValue(_, _, _)
DigitsValue(s, i, acc) ==
    IF i > Len(s) \/ s[i] \notin Digit THEN acc
    ELSE DigitsValue(s, i + 1, 10 * acc + s[i])

\* parseInt(s): an optional sign, then the longest run of digits; NaN when
\* there is no digit there.  The result is [nan |-> .., n |-> ..].
ParseInt(s) ==
    LET neg   == Len(s) >= 1 /\ s[1] = MINUS
        first == IF neg THEN 2 ELSE 1
    IN  IF first > Len(s) \/ s[first] \notin Digit
        THEN [nan |-> TRUE, n |-> 0]
        ELSE [nan |-> FALSE,
              n   |-> IF neg THEN 0 - DigitsValue(s, first, 0)
                             ELSE DigitsValue(s, first, 0)]

\* JavaScript truthiness of a number: neither NaN nor 0
Truthy(v) == ~v.nan /\ v.n # 0

---------------------------------------------------------------------------
(* Blocks (the Block class of block.js) and the hash *)

\* null / undefined / the empty string: every falsy hash value
Null == <<>>

GenesisText  == <<ChG>>      \* 'Genesis Block'
StarRegistry == <<ChR>>      \* 'starRegistry'

\* Buffer.from(JSON.stringify(data)).toString('hex'): the payload's fields in
\* the order the object literal lists them
EncodeData(data) ==
    IF data.kind = "genesis" THEN <<data.data>>
    ELSE <<data.address, data.message, data.signature, data.star>>

\* the inverse of EncodeData; ok is FALSE for a payload that does not decode
DecodeBody(body) ==
    IF Len(body) = 4
    THEN [ok |-> TRUE, kind |-> "star", address |-> body[1], message |-> body[2],
          signature |-> body[3], star |-> body[4]]
    ELSE IF Len(body) = 1
    THEN [ok |-> TRUE, kind |-> "genesis", address |-> Null, message |-> Null,
          signature |-> Null, star |-> body[1]]
    ELSE [ok |-> FALSE, kind |-> "garbage", address |-> Null, message |-> Null,
          signature |-> Null, star |-> Null]

\* new BlockClass.Block({data: ...}): only the payload is populated
NewBlock(data) ==
    [hash |-> Null, height |-> 0, body |-> EncodeData(data), time |-> <<0>>,
     previousBlockHash |-> Null]

\* SHA256(JSON.stringify(block)).toString().  The digest is modelled by its
\* preimage, the values of the block's fields in the order JSON.stringify
\* writes them: it is deterministic and two different preimages never collide.
SHA256Json(block) ==
    <<block.hash, block.height, block.body, block.time, block.previousBlockHash>>

\* Block.validate(): recompute the hash of the block with its hash field
\* cleared, and compare with the stored hash
BlockValidate(block) ==
    block.hash = SHA256Json([block EXCEPT !.hash = Null])

\* Array.prototype.find by height: the index of the first block of c whose
\* height is h, 0 when there is none
RECURSIVE FindHeightFrom(_, _, _)
FindHeightFrom(c, h, i) ==
    IF i > Len(c) THEN 0
    ELSE IF c[i].height = h THEN i
    ELSE FindHeightFrom(c, h, i + 1)

FindByHeight(c, h) == FindHeightFrom(c, h, 1)

\* Array.prototype.find by hash
RECURSIVE FindHashFrom(_, _, _)
FindHashFrom(c, x, i) ==
    IF i > Len(c) THEN 0
    ELSE IF c[i].hash = x THEN i
    ELSE FindHashFrom(c, x, i + 1)

FindByHash(c, x) == FindHashFrom(c, x, 1)

---------------------------------------------------------------------------
(* Block admission *)

\* _addBlock linking every block to the first block of the chain
LinkToFirst(c, h, block) ==
    IF Len(c) = 0 \/ c[1].hash = Null THEN block.previousBlockHash
    ELSE c[1].hash

\* the previousBlockHash _addBlock gives a block admitted on chain c at
\* height counter h: the tip's hash, or what the block had ('no previous
\* block') when the tip or its hash is missing
LinkTo(c, h, block) ==
    LET i == FindByHeight(c, h)
    IN  IF i = 0 \/ c[i].hash = Null THEN block.previousBlockHash
        ELSE c[i].hash

\* _addBlock without its `self.height += 1`
AddBlockNoCount(c, h, block, ms) ==
    IF Len(c) = 0
    THEN LET b1 == [block EXCEPT !.time = TimeStamp(ms), !.height = 0]
             b2 == [b1 EXCEPT !.hash = SHA256Json(b1)]
         IN  [chain |-> Append(c, b2), height |-> 0, block |-> b2]
    ELSE LET b1 == [block EXCEPT !.time = TimeStamp(ms)]
             b2 == [b1 EXCEPT !.previousBlockHash = LinkTo(c, h, b1)]
             b3 == [b2 EXCEPT !.height = h + 1]
             b4 == [b3 EXCEPT !.hash = SHA256Json(b3)]
         IN  [chain |-> Append(c, b4), height |-> h, block |-> b4]

\* _addBlock with `this.chain.unshift(block)` where it has `this.chain.push(block)`
AddBlockUnshift(c, h, block, ms) ==
    IF Len(c) = 0
    THEN LET b1 == [block EXCEPT !.time = TimeStamp(ms), !.height = 0]
             b2 == [b1 EXCEPT !.hash = SHA256Json(b1)]
         IN  [chain |-> <<b2>> \o c, height |-> 0, block |-> b2]
    ELSE LET b1 == [block EXCEPT !.time = TimeStamp(ms)]
             b2 == [b1 EXCEPT !.previousBlockHash = LinkTo(c, h, b1)]
             b3 == [b2 EXCEPT !.height = h + 1]
             b4 == [b3 EXCEPT !.hash = SHA256Json(b3)]
         IN  [chain |-> <<b4>> \o c, height |-> h + 1, block |-> b4]

\* _addBlock without its `block.hash = hash`
AddBlockNoHash(c, h, block, ms) ==
    IF Len(c) = 0
    THEN LET b1 == [block EXCEPT !.time = TimeStamp(ms), !.height = 0]
         IN  [chain |-> Append(c, b1), height |-> 0, block |-> b1]
    ELSE LET b1 == [block EXCEPT !.time = TimeStamp(ms)]
             b2 == [b1 EXCEPT !.previousBlockHash = LinkTo(c, h, b1)]
             b3 == [b2 EXCEPT !.height = h + 1]
         IN  [chain |-> Append(c, b3), height |-> h + 1, block |-> b3]

\* _addBlock with `block.height = self.height` where it has
\* `block.height = self.height + 1`
AddBlockSameHeight(c, h, block, ms) ==
    IF Len(c) = 0
    THEN LET b1 == [block EXCEPT !.time = TimeStamp(ms), !.height = 0]
             b2 == [b1 EXCEPT !.hash = SHA256Json(b1)]
         IN  [chain |-> Append(c, b2), height |-> 0, block |-> b2]
    ELSE LET b1 == [block EXCEPT !.time = TimeStamp(ms)]
             b2 == [b1 EXCEPT !.previousBlockHash = LinkTo(c, h, b1)]
             b3 == [b2 EXCEPT !.height = h]
             b4 == [b3 EXCEPT !.hash = SHA256Json(b3)]
         IN  [chain |-> Append(c, b4), height |-> h + 1, block |-> b4]

\* _addBlock(block) at clock reading ms on chain c with height counter h:
\* the chain and the counter afterwards, and the block appended
AddBlock(c, h, block, ms) ==
    IF Len(c) = 0
    THEN LET b1 == [block EXCEPT !.time = TimeStamp(ms), !.height = 0]
             b2 == [b1 EXCEPT !.hash = SHA256Json(b1)]
         IN  [chain |-> Append(c, b2), height |-> 0, block |-> b2]
    ELSE LET b1 == [block EXCEPT !.time = TimeStamp(ms)]
             b2 == [b1 EXCEPT !.previousBlockHash = LinkTo(c, h, b1)]
             b3 == [b2 EXCEPT !.height = h + 1]
             b4 == [b3 EXCEPT !.hash = SHA256Json(b3)]
         IN  [chain |-> Append(c, b4), height |-> h + 1, block |-> b4]

---------------------------------------------------------------------------
(* Ownership verification *)

\* the validity window of a challenge, in seconds
Window == 300

\* the message requestMessageOwnershipVerification(address) resolves with at
\* clock reading ms:  `${address}:${seconds}:starRegistry`
ChallengeMessage(address, ms) ==
    address \o <<COLON>> \o TimeStamp(ms) \o <<COLON>> \o StarRegistry

\* the signature the owner of address produces over message
Sign(address, message) == <<ChX>> \o address \o <<MINUS>> \o message

Forged    == <<ChX, ChX>>   \* a well-formed signature of nobody's
Malformed == <<>>           \* a string that is no signature at all

\* bitcoinMessage.verify(message, address, signature): "true", "false", or
\* "throws" for a signature it cannot decode
Verify(message, address, signature) ==
    IF signature = Malformed THEN "throws"
    ELSE IF signature = Sign(address, message) THEN "true"
    ELSE "false"

\* parseInt(message.split(':')[1])
MessageTime(message) == ParseInt(Split(message)[2])

\* parseInt(new Date().getTime().toString().slice(0, -3))
CurrentTime(ms) == ParseInt(TimeStamp(ms))

\* the window test with <= in place of <
InWindowInclusive(messageTime, currentTime) ==
    Truthy(messageTime) /\ currentTime.n - messageTime.n <= Window

\* messageTime && currentTime - messageTime < 300
InWindow(messageTime, currentTime) ==
    Truthy(messageTime) /\ currentTime.n - messageTime.n < Window

\* submitStar accepting any message of at least three fields
SubmitVerdictAtLeast3(address, message, signature, ms) ==
    IF Len(Split(message)) >= 3
    THEN IF InWindow(MessageTime(message), CurrentTime(ms))
         THEN CASE Verify(message, address, signature) = "false"
                     -> "Bitcoin message unverified."
                [] Verify(message, address, signature) = "true" -> "admit"
                [] OTHER -> "throws"
         ELSE "Incorrect time"
    ELSE "Incorrect message format"

\* submitStar with the test of bitcoinMessage.verify's result inverted
SubmitVerdictInverted(address, message, signature, ms) ==
    IF Len(Split(message)) = 3
    THEN IF InWindow(MessageTime(message), CurrentTime(ms))
         THEN CASE Verify(message, address, signature) = "true"
                     -> "Bitcoin message unverified."
                [] Verify(message, address, signature) = "false" -> "admit"
                [] OTHER -> "throws"
         ELSE "Incorrect time"
    ELSE "Incorrect message format"

\* how submitStar decides a submission at clock reading ms: the reason it
\* rejects with, "admit" when it goes on to _addBlock, "throws" when the
\* executor throws out of bitcoinMessage.verify
SubmitVerdict(address, message, signature, ms) ==
    IF Len(Split(message)) = 3
    THEN IF InWindow(MessageTime(message), CurrentTime(ms))
         THEN CASE Verify(message, address, signature) = "false"
                     -> "Bitcoin message unverified."
                [] Verify(message, address, signature) = "true" -> "admit"
                [] OTHER -> "throws"
         ELSE "Incorrect time"
    ELSE "Incorrect message format"

\* the payload submitStar builds
StarData(address, message, signature, star) ==
    [kind |-> "star", address |-> address, message |-> message,
     signature |-> signature, star |-> star]

---------------------------------------------------------------------------
(* Chain validation *)

TamperedError == "Block data was tempered"
LinkageError  == "Previous block hash doesn't match the hash of the previous block"

\* the loop of validateChain leaving at the first block that fails
RECURSIVE ValidateFromBreak(_, _, _, _)
ValidateFromBreak(c, i, previousBlockHash, errorLog) ==
    IF i > Len(c) THEN errorLog
    ELSE IF ~BlockValidate(c[i])
    THEN Append(errorLog, [error |-> TamperedError,
                           hashOnPreviousBlock |-> Null,
                           invalidBlock |-> c[i]])
    ELSE ValidateFromBreak(c, i + 1, c[i].previousBlockHash, errorLog)

\* the loop of validateChain from block i on, with the previousBlockHash
\* variable and the errorLog so far
RECURSIVE ValidateFrom(_, _, _, _)
ValidateFrom(c, i, previousBlockHash, errorLog) ==
    IF i > Len(c) THEN errorLog
    ELSE IF ~BlockValidate(c[i])
    THEN ValidateFrom(c, i + 1, previousBlockHash,
             Append(errorLog, [error |-> TamperedError,
                               hashOnPreviousBlock |-> Null,
                               invalidBlock |-> c[i]]))
    ELSE LET carried == c[i].previousBlockHash
         IN  IF c[i].height > 0 /\ c[i].previousBlockHash # carried
             THEN ValidateFrom(c, i + 1, carried,
                      Append(errorLog, [error |-> LinkageError,
                                        hashOnPreviousBlock |-> carried,
                                        invalidBlock |-> c[i]]))
             ELSE ValidateFrom(c, i + 1, carried, errorLog)

\* the errorLog validateChain ends with
ErrorLog(c) == ValidateFrom(c, 1, Null, <<>>)

---------------------------------------------------------------------------
(* Queries *)

\* the list getStarsByWalletAddress has collected from block i on once the
\* callback of every block has run, in chain order
RECURSIVE StarsFrom(_, _, _)
StarsFrom(c, address, i) ==
    IF i > Len(c) THEN <<>>
    ELSE LET data == DecodeBody(c[i].body)
         IN  IF data.ok /\ data.kind = "star" /\ data.address = address
             THEN <<[owner |-> data.address, star |-> data.star]>>
                      \o StarsFrom(c, address, i + 1)
             ELSE StarsFrom(c, address, i + 1)

---------------------------------------------------------------------------
(* Inputs *)

A1 == <<ChA>>                  \* two wallet addresses
A2 == <<ChB>>
AC == <<ChA, COLON, ChB>>      \* an identity string that contains a ':'
S1 == <<ChS>>                  \* two star descriptions
S2 == <<ChT>>

\* the callers: each wallet address with the star its owner registers
Wallets == {<<A1, S1>>, <<A2, S2>>}

\* the identities challenges are requested for
Identities == {A1, AC}

EpochMs == EpochSeconds * 1000

\* the instants at which the clock is read: the start, the last millisecond
\* of the 299th second after it, and the 300th second after it
ClockPoints == {EpochMs, EpochMs + (Window * 1000 - 1), EpochMs + Window * 1000}

\* messages a caller writes by hand: dated far in the future, dated 0, with a
\* timestamp that is no number, and with two fields only
FutureMessage   == ChallengeMessage(A1, EpochMs + 3 * Window * 1000)
ZeroMessage     == A1 \o <<COLON, 0, COLON>> \o StarRegistry
TextMessage     == A1 \o <<COLON, ChX, COLON>> \o StarRegistry
TwoFieldMessage == A1 \o <<COLON>> \o TimeStamp(EpochMs)

Crafted == {FutureMessage, ZeroMessage, TextMessage, TwoFieldMessage}

\* the digest of a block that is in no chain: no block has a negative height
BogusHash ==
    SHA256Json([NewBlock([kind |-> "genesis", data |-> <<ChX>>]) EXCEPT !.height = -1])

---------------------------------------------------------------------------
(* State *)

\* the number of writes to the chain so far: blocks pushed, blocks overwritten
Version == Len(chain) + tampers.count

\* the record of a call: its arguments, how its promise settled ("fulfilled",
\* "rejected", or "pending" while it has not settled) and what it settled with
Call(op) ==
    [op |-> op, status |-> "fulfilled",
     reason |-> "",        \* the string a promise rejected with
     value |-> "",         \* the string a promise fulfilled with
     address |-> Null, message |-> Null, signature |-> Null, star |-> Null,
     arg |-> 0, hashArg |-> Null,
     currentTime |-> 0,    \* submitStar: the clock reading it took, in seconds
     issuedFor |-> Null,   \* submitStar: the identity message was handed out to as a challenge
     version |-> Version,  \* the writes the chain had seen when the promise settled
     blocks |-> <<>>,      \* the block a promise fulfilled with, if any
     log |-> <<>>,         \* validateChain: the list it rejected with
     num |-> 0,            \* getChainHeight: the number it fulfilled with
     text |-> Null,        \* requestMessageOwnershipVerification: the message
     stars |-> <<>>,       \* getStarsByWalletAddress: the list it fulfilled with
     decoding |-> {},      \* getStarsByWalletAddress: the blocks whose getBData() has not settled
     delivered |-> FALSE,  \* getStarsByWalletAddress: the caller has been handed the list
     seen |-> <<>>]        \* getStarsByWalletAddress: the list as the caller was handed it

\* the callers that submit without waiting for one another
Callers == {1, 2}

\* a caller's submission: "idle" before the call, "awaiting" once submitStar
\* has run up to its `await this._addBlock(block)`, "settled" once its promise
\* has settled, "stuck" when the executor has ended without settling it;
\* readHeight is the this.height _addBlock read for it, blocks the block
\* _addBlock resolved with
Idle == [state |-> "idle", status |-> "", readHeight |-> -1, blocks |-> <<>>]

Init ==
    /\ pc = "new"
    /\ chain = <<>>
    /\ height = -1
    /\ nowMs = EpochMs
    /\ tampers = [count |-> 0, touched |-> {}]
    /\ last = Call("none")
    /\ inflight = [p \in Callers |-> Idle]

\* time passes
Tick ==
    /\ pc = "ready"
    /\ \E t \in ClockPoints : t > nowMs /\ nowMs' = t
    /\ UNCHANGED <<pc, chain, height, tampers, last, inflight>>

\* a constructor that does not call initializeChain()
ConstructorBare ==
    /\ pc = "new"
    /\ pc' = "ready"
    /\ last' = Call("constructor")
    /\ UNCHANGED <<chain, height, nowMs, tampers, inflight>>

\* new Blockchain(): the fields are set and initializeChain() runs up to its
\* await, which is after _addBlock has pushed the genesis block
Constructor ==
    /\ pc = "new"
    /\ LET r == IF height = -1
                THEN AddBlock(chain, height,
                         NewBlock([kind |-> "genesis", data |-> GenesisText]), nowMs)
                ELSE [chain |-> chain, height |-> height, block |-> Null]
       IN  /\ chain' = r.chain
           /\ height' = r.height
    /\ pc' = "ready"
    /\ last' = [Call("constructor") EXCEPT !.version = Len(chain') + tampers.count]
    /\ UNCHANGED <<nowMs, tampers, inflight>>

GetChainHeight ==
    /\ pc = "ready"
    /\ last' = [Call("getChainHeight") EXCEPT !.num = height]
    /\ UNCHANGED <<pc, chain, height, nowMs, tampers, inflight>>

RequestMessageOwnershipVerification(address) ==
    /\ pc = "ready"
    /\ last' = [Call("requestMessageOwnershipVerification") EXCEPT
                   !.address = address,
                   !.text = ChallengeMessage(address, nowMs)]
    /\ UNCHANGED <<pc, chain, height, nowMs, tampers, inflight>>

\* the messages a caller has at hand: the challenge just received, the
\* message just submitted, and the hand-written ones
ChallengeAtHand ==
    IF last.op = "requestMessageOwnershipVerification" THEN {last.text} ELSE {}

MessagesAtHand ==
    Crafted \cup ChallengeAtHand
      \cup (IF last.op = "submitStar" THEN {last.message} ELSE {})

\* the identity message was handed out to as a challenge, Null if it was not
IssuedFor(message) ==
    IF last.op = "requestMessageOwnershipVerification" /\ message = last.text
    THEN last.address
    ELSE IF last.op = "submitStar" /\ message = last.message
    THEN last.issuedFor
    ELSE Null

\* submitStar keeping track of the messages it has admitted a block for and
\* rejecting a message it has seen
SubmitStarOnce(address, message, signature, star) ==
    /\ pc = "ready"
    /\ LET verdict == SubmitVerdict(address, message, signature, nowMs)
           used == \E i \in 1..Len(chain) : DecodeBody(chain[i].body).message = message
           call == [Call("submitStar") EXCEPT
                       !.address = address, !.message = message,
                       !.signature = signature, !.star = star,
                       !.currentTime = CurrentTime(nowMs).n,
                       !.issuedFor = IssuedFor(message)]
       IN  IF verdict = "admit" /\ ~used
           THEN /\ Len(chain) < MaxChain
                /\ LET r == AddBlock(chain, height,
                                NewBlock(StarData(address, message, signature, star)),
                                nowMs)
                   IN  /\ chain' = r.chain
                       /\ height' = r.height
                       /\ last' = [call EXCEPT !.blocks = <<r.block>>,
                                                !.version = Version + 1]
           ELSE /\ UNCHANGED <<chain, height>>
                /\ last' = IF verdict = "throws"
                           THEN [call EXCEPT !.status = "pending"]
                           ELSE [call EXCEPT !.status = "rejected",
                                             !.reason = IF verdict = "admit"
                                                        THEN "Incorrect time"
                                                        ELSE verdict]
    /\ UNCHANGED <<pc, nowMs, tampers, inflight>>

\* submitStar(address, message, signature, star), its continuation after
\* `await this._addBlock(block)` included
SubmitStar(address, message, signature, star) ==
    /\ pc = "ready"
    /\ LET verdict == SubmitVerdict(address, message, signature, nowMs)
           call == [Call("submitStar") EXCEPT
                       !.address = address, !.message = message,
                       !.signature = signature, !.star = star,
                       !.currentTime = CurrentTime(nowMs).n,
                       !.issuedFor = IssuedFor(message)]
       IN  IF verdict = "admit"
           THEN /\ Len(chain) < MaxChain
                /\ LET r == AddBlock(chain, height,
                                NewBlock(StarData(address, message, signature, star)),
                                nowMs)
                   IN  /\ chain' = r.chain
                       /\ height' = r.height
                       /\ last' = [call EXCEPT !.blocks = <<r.block>>,
                                                !.version = Version + 1]
           ELSE /\ UNCHANGED <<chain, height>>
                /\ last' = IF verdict = "throws"
                           THEN [call EXCEPT !.status = "pending"]
                           ELSE [call EXCEPT !.status = "rejected", !.reason = verdict]
    /\ UNCHANGED <<pc, nowMs, tampers, inflight>>

\* caller p calls submitStar: the executor of the promise runs at once and
\* without a pause up to `await this._addBlock(block)`, and the executor of
\* _addBlock, which has no await, has by then read this.height, pushed the
\* block and incremented the counter
SubmitStarCall(p, address, message, signature, star) ==
    /\ pc = "ready"
    /\ inflight[p].state = "idle"
    /\ LET verdict == SubmitVerdict(address, message, signature, nowMs)
       IN  IF verdict = "admit"
           THEN /\ Len(chain) < MaxChain
                /\ LET r == AddBlock(chain, height,
                                NewBlock(StarData(address, message, signature, star)),
                                nowMs)
                   IN  /\ chain' = r.chain
                       /\ height' = r.height
                       /\ inflight' = [inflight EXCEPT ![p] =
                              [state |-> "awaiting", status |-> "",
                               readHeight |-> height, blocks |-> <<r.block>>]]
           ELSE /\ UNCHANGED <<chain, height>>
                /\ inflight' = [inflight EXCEPT ![p] =
                       IF verdict = "throws"
                       THEN [Idle EXCEPT !.state = "stuck", !.status = "pending"]
                       ELSE [Idle EXCEPT !.state = "settled", !.status = "rejected"]]
    /\ UNCHANGED <<pc, nowMs, tampers, last>>

\* the submitStar of caller p goes on after its await and resolves with the
\* block _addBlock resolved with
SubmitStarResume(p) ==
    /\ inflight[p].state = "awaiting"
    /\ inflight' = [inflight EXCEPT ![p].state = "settled",
                                    ![p].status = "fulfilled"]
    /\ UNCHANGED <<pc, chain, height, nowMs, tampers, last>>

\* caller p, its promise settled, is free to call again
SubmitStarReturn(p) ==
    /\ inflight[p].state = "settled"
    /\ inflight' = [inflight EXCEPT ![p] = Idle]
    /\ UNCHANGED <<pc, chain, height, nowMs, tampers, last>>

\* getBlockByHash(hash): settles only when the chain is not empty
GetBlockByHash(hash) ==
    /\ pc = "ready"
    /\ LET i == FindByHash(chain, hash)
           call == [Call("getBlockByHash") EXCEPT !.hashArg = hash]
       IN  last' = IF Len(chain) > 0
                   THEN [call EXCEPT !.blocks = IF i = 0 THEN <<>> ELSE <<chain[i]>>]
                   ELSE [call EXCEPT !.status = "pending"]
    /\ UNCHANGED <<pc, chain, height, nowMs, tampers, inflight>>

\* getBlockByHeight with `chainBlock.height = height` as the test of find:
\* every block find visits gets the height, and find stops at the first
\* block when the height is truthy
GetBlockByHeightAssign(h) ==
    /\ pc = "ready"
    /\ LET call == [Call("getBlockByHeight") EXCEPT !.arg = h]
       IN  IF h # 0 /\ Len(chain) > 0
           THEN /\ chain' = [chain EXCEPT ![1].height = h]
                /\ last' = [call EXCEPT !.blocks = <<chain'[1]>>]
           ELSE /\ chain' = [i \in 1..Len(chain) |-> [chain[i] EXCEPT !.height = h]]
                /\ last' = [call EXCEPT !.status = "rejected",
                                        !.reason = "Block Not Found!"]
    /\ UNCHANGED <<pc, height, nowMs, tampers, inflight>>

\* getBlockByHeight with `if (height && block)` where it has `if (block)`
GetBlockByHeightNoZero(h) ==
    /\ pc = "ready"
    /\ LET i == FindByHeight(chain, h)
           call == [Call("getBlockByHeight") EXCEPT !.arg = h]
       IN  last' = IF h # 0 /\ i # 0
                   THEN [call EXCEPT !.blocks = <<chain[i]>>]
                   ELSE [call EXCEPT !.status = "rejected", !.reason = "Block Not Found!"]
    /\ UNCHANGED <<pc, chain, height, nowMs, tampers, inflight>>

\* getBlockByHeight(height): the block find returns for the height, or
\* 'Block Not Found!'
GetBlockByHeight(h) ==
    /\ pc = "ready"
    /\ LET i == FindByHeight(chain, h)
           call == [Call("getBlockByHeight") EXCEPT !.arg = h]
       IN  last' = IF i # 0
                   THEN [call EXCEPT !.blocks = <<chain[i]>>]
                   ELSE [call EXCEPT !.status = "rejected", !.reason = "Block Not Found!"]
    /\ UNCHANGED <<pc, chain, height, nowMs, tampers, inflight>>

\* getStarsByWalletAddress(address): calls getBData() on every block, leaves
\* a callback on each returned promise, and resolves with the list, which is
\* empty until the callbacks run
GetStarsByWalletAddress(address) ==
    /\ pc = "ready"
    /\ last' = [Call("getStarsByWalletAddress") EXCEPT
                   !.address = address,
                   !.stars = <<>>,
                   !.decoding = 1..Len(chain)]
    /\ UNCHANGED <<pc, chain, height, nowMs, tampers, inflight>>

\* the getBData() promise of block i settles: when it fulfils, the callback
\* of getStarsByWalletAddress pushes the star if the address is the one asked
\* for; when it rejects, no callback runs
OnBData(i) ==
    /\ last.op = "getStarsByWalletAddress"
    /\ i \in last.decoding
    /\ LET data == DecodeBody(chain[i].body)
       IN  last' = [last EXCEPT
                       !.decoding = @ \ {i},
                       !.stars = IF data.ok /\ data.kind = "star"
                                           /\ data.address = last.address
                                 THEN Append(@, [owner |-> data.address,
                                                 star |-> data.star])
                                 ELSE @]
    /\ UNCHANGED <<pc, chain, height, nowMs, tampers, inflight>>

\* the caller of getStarsByWalletAddress is handed the list the promise
\* fulfilled with, as it is at that moment
ReceiveStars ==
    /\ last.op = "getStarsByWalletAddress"
    /\ ~last.delivered
    /\ last' = [last EXCEPT !.delivered = TRUE, !.seen = last.stars]
    /\ UNCHANGED <<pc, chain, height, nowMs, tampers, inflight>>

\* validateChain calling resolve('Chain is valid') before it looks at the log
ValidateChainResolveFirst ==
    /\ pc = "ready"
    /\ last' = [Call("validateChain") EXCEPT !.value = "Chain is valid"]
    /\ UNCHANGED <<pc, chain, height, nowMs, tampers, inflight>>

\* validateChain(): reject(errorLog) when the log is not empty; the
\* resolve('Chain is valid') that follows then finds the promise settled
ValidateChain ==
    /\ pc = "ready"
    /\ LET errorLog == ErrorLog(chain)
       IN  last' = IF Len(errorLog) > 0
                   THEN [Call("validateChain") EXCEPT !.status = "rejected",
                                                      !.log = errorLog]
                   ELSE [Call("validateChain") EXCEPT !.value = "Chain is valid"]
    /\ UNCHANGED <<pc, chain, height, nowMs, tampers, inflight>>

---------------------------------------------------------------------------
(* Tampering: an outside party writes into a block of the chain *)

BlockFields == {"hash", "height", "body", "time", "previousBlockHash"}

\* block with one field overwritten by a value it did not have
Overwrite(block, field) ==
    CASE field = "hash" -> [block EXCEPT !.hash = BogusHash]
      [] field = "height" -> [block EXCEPT !.height = block.height + 1]
      [] field = "body" -> [block EXCEPT !.body[Len(block.body)] = <<ChX>>]
      [] field = "time" -> [block EXCEPT !.time = <<0>>]
      [] OTHER -> [block EXCEPT !.previousBlockHash = BogusHash]

\* a field of block i is mutated in place; its hash is not recomputed
Tamper(i, field) ==
    /\ pc = "ready"
    /\ tampers.count < MaxTampers
    /\ i \in 1..Len(chain)
    /\ Overwrite(chain[i], field) # chain[i]
    /\ chain' = [chain EXCEPT ![i] = Overwrite(chain[i], field)]
    /\ tampers' = [count |-> tampers.count + 1, touched |-> tampers.touched \cup {i}]
    /\ UNCHANGED <<pc, height, nowMs, last, inflight>>

\* a field of block i is mutated in place and the block is given the hash of
\* its new content
Forge(i, field) ==
    /\ pc = "ready"
    /\ tampers.count < MaxTampers
    /\ i \in 1..Len(chain)
    /\ Overwrite(chain[i], field) # chain[i]
    /\ LET b == [Overwrite(chain[i], field) EXCEPT !.hash = Null]
       IN  chain' = [chain EXCEPT ![i] = [b EXCEPT !.hash = SHA256Json(b)]]
    /\ tampers' = [count |-> tampers.count + 1, touched |-> tampers.touched \ {i}]
    /\ UNCHANGED <<pc, height, nowMs, last, inflight>>

\* the chain array is emptied (`chain.length = 0`); every block removed
\* counts as a write, and so does the emptying
Empty ==
    /\ pc = "ready"
    /\ tampers.count < MaxTampers
    /\ Len(chain) > 0
    /\ chain' = <<>>
    /\ tampers' = [count |-> tampers.count + Len(chain) + 1, touched |-> {}]
    /\ UNCHANGED <<pc, height, nowMs, last, inflight>>

---------------------------------------------------------------------------
(* Specifications *)

Signatures(address, message) == {Sign(address, message), Forged, Malformed}

HashesAtHand == {chain[i].hash : i \in 1..Len(chain)} \cup {BogusHash}

\* challenges are requested and stars are submitted
Next ==
    \/ Tick
    \/ Constructor
    \/ \E identity \in Identities : RequestMessageOwnershipVerification(identity)
    \/ \E wallet \in Wallets, message \in MessagesAtHand :
         \E signature \in Signatures(wallet[1], message) :
            SubmitStar(wallet[1], message, signature, wallet[2])

Spec == Init /\ [][Next]_vars

\* stars are submitted with their owners' signatures and the chain is queried
NextQuery ==
    \/ Tick
    \/ Constructor
    \/ RequestMessageOwnershipVerification(A1)
    \/ \E wallet \in Wallets, message \in MessagesAtHand :
          SubmitStar(wallet[1], message, Sign(wallet[1], message), wallet[2])
    \/ GetChainHeight
    \/ \E hash \in HashesAtHand : GetBlockByHash(hash)
    \/ \E h \in 0..MaxChain : GetBlockByHeight(h)
    \/ \E wallet \in Wallets : GetStarsByWalletAddress(wallet[1])
    \/ ValidateChain

SpecQuery == Init /\ [][NextQuery]_vars

\* stars are submitted within one second and looked up by their owners'
\* addresses; the getBData() promises settle, and the caller is handed the
\* list, in any order
NextStars ==
    \/ Constructor
    \/ RequestMessageOwnershipVerification(A1)
    \/ \E wallet \in Wallets, message \in MessagesAtHand :
          SubmitStar(wallet[1], message, Sign(wallet[1], message), wallet[2])
    \/ \E wallet \in Wallets : GetStarsByWalletAddress(wallet[1])
    \/ \E i \in 1..MaxChain : OnBData(i)
    \/ ReceiveStars

SpecStars == Init /\ [][NextStars]_vars

\* the chain is built within one second, an outside party writes into its
\* blocks, and the chain is validated
NextTamper ==
    \/ Constructor
    \/ RequestMessageOwnershipVerification(A1)
    \/ \E message \in ChallengeAtHand :
          SubmitStar(A1, message, Sign(A1, message), S1)
    \/ \E i \in 1..MaxChain, field \in BlockFields : Tamper(i, field)
    \/ \E i \in 1..MaxChain, field \in {"previousBlockHash", "body"} : Forge(i, field)
    \/ ValidateChain

SpecTamper == Init /\ [][NextTamper]_vars

\* two callers submit stars without waiting for one another: a call may be
\* made while the promise of the other caller's call has not settled, and
\* the calls go on after their awaits in any order
NextConcurrent ==
    \/ Constructor
    \/ RequestMessageOwnershipVerification(A1)
    \/ \E p \in Callers, wallet \in Wallets,
           message \in ChallengeAtHand \cup {FutureMessage, TextMessage} :
          SubmitStarCall(p, wallet[1], message, Sign(wallet[1], message), wallet[2])
    \/ \E p \in Callers : SubmitStarResume(p)
    \/ \E p \in Callers : SubmitStarReturn(p)

SpecConcurrent == Init /\ [][NextConcurrent]_vars

\* blocks are looked up by hash on the chain as the constructor and submitStar
\* built it and on the chain array after an outside party has emptied it
NextEmpty ==
    \/ Constructor
    \/ RequestMessageOwnershipVerification(A1)
    \/ \E wallet \in Wallets, message \in ChallengeAtHand :
          SubmitStar(wallet[1], message, Sign(wallet[1], message), wallet[2])
    \/ Empty
    \/ \E hash \in HashesAtHand : GetBlockByHash(hash)

SpecEmpty == Init /\ [][NextEmpty]_vars

---------------------------------------------------------------------------
(* Properties *)

Tip == chain[Len(chain)]

IsSubmit == last.op = "submitStar"

\* the seconds between the timestamp in the submitted message and the clock
\* reading the submission took
Elapsed == last.currentTime - MessageTime(last.message).n

\* C1: on a chain built by the constructor and submitStar alone, the height
\* counter is the number of blocks minus one, the block at index i has
\* height i, and every block after the first carries the hash of the block
\* before it as its previousBlockHash.
ChainWellFormed ==
    /\ height = Len(chain) - 1
    /\ \A i \in 1..Len(chain) : chain[i].height = i - 1
    /\ \A i \in 2..Len(chain) : chain[i].previousBlockHash = chain[i - 1].hash

ChainWellFormedWitness ==
    /\ Len(chain) = 3
    /\ IsSubmit /\ last.status = "fulfilled"
    /\ chain[3].previousBlockHash = chain[2].hash
    /\ chain[3].previousBlockHash # Null

\* C2: once the constructor has returned the chain starts with the genesis
\* block, of height 0 and without a previousBlockHash; right after the
\* constructor it is the only block and the height counter is 0; and no later
\* step changes the block at index 0.
GenesisInPlace ==
    /\ pc = "ready" =>
          /\ Len(chain) >= 1
          /\ chain[1].height = 0
          /\ chain[1].previousBlockHash = Null
          /\ chain[1].body = <<GenesisText>>
          /\ chain[1].hash # Null
    /\ last.op = "constructor" => Len(chain) = 1 /\ height = 0

GenesisFirst ==
    [](GenesisInPlace) /\ [][pc = "ready" => chain'[1] = chain[1]]_vars

GenesisFirstWitness ==
    /\ pc = "ready"
    /\ Len(chain) = 3
    /\ chain[1].height = 0 /\ chain[1].previousBlockHash = Null
    /\ chain[1].time = TimeStamp(EpochMs)
    /\ chain[3].time # chain[1].time

\* C3: a challenge handed out at second T to the identity that then submits
\* it with its valid signature is admitted when the submission reads the
\* clock at T up to T + 299, and rejected with 'Incorrect time' at T + 300 or
\* later.
ChallengeWindow ==
    (/\ IsSubmit
     /\ last.issuedFor = last.address
     /\ last.signature = Sign(last.address, last.message))
    => /\ Elapsed >= 0
       /\ Elapsed <= 299 => last.status = "fulfilled" /\ Len(last.blocks) = 1
       /\ Elapsed >= 300 => last.status = "rejected" /\ last.reason = "Incorrect time"

ChallengeWindowWitness ==
    /\ IsSubmit
    /\ last.issuedFor = last.address
    /\ last.signature = Sign(last.address, last.message)
    /\ Elapsed = 299
    /\ last.status = "fulfilled"

\* C4: a submission whose message does not split into exactly 3 fields at
\* the colons is rejected with 'Incorrect message format', whatever its
\* timestamp and whatever its signature is.
FormatFirst ==
    (IsSubmit /\ Len(Split(last.message)) # 3)
    => last.status = "rejected" /\ last.reason = "Incorrect message format"

FormatFirstWitness ==
    /\ IsSubmit
    /\ last.status = "rejected" /\ last.reason = "Incorrect message format"
    /\ Len(Split(last.message)) = 4
    /\ last.signature = Sign(last.address, last.message)
    /\ last.currentTime - ParseInt(Split(last.message)[3]).n = 1

\* C5: a rejected submission leaves the chain and the height counter as they
\* were; and a submission of a three-field message inside its window with a
\* signature that does not verify is rejected with 'Bitcoin message
\* unverified.'.
UnverifiedRejected ==
    (/\ IsSubmit
     /\ Len(Split(last.message)) = 3
     /\ ~MessageTime(last.message).nan
     /\ MessageTime(last.message).n # 0
     /\ Elapsed < 300
     /\ last.signature = Forged)
    => last.status = "rejected" /\ last.reason = "Bitcoin message unverified."

RejectionKeepsChain ==
    [](UnverifiedRejected)
      /\ [][(last'.op = "submitStar" /\ last'.status = "rejected")
               => (chain' = chain /\ height' = height)]_vars

RejectionKeepsChainWitness ==
    /\ IsSubmit
    /\ last.status = "rejected" /\ last.reason = "Bitcoin message unverified."
    /\ Len(chain) = 2
    /\ height = 1

\* C6: a submission that is admitted on a chain whose tip has height h and
\* hash H appends one block, fulfils with that block, and the block has
\* height h + 1, previousBlockHash H and a payload made of the submitted
\* address, message, signature and star; the height counter becomes h + 1.
AdmissionResult ==
    [][(/\ last'.op = "submitStar"
        /\ last'.status = "fulfilled"
        /\ <<chain, last>>' # <<chain, last>>)
       => /\ Len(chain) >= 1
          /\ chain' = Append(chain, last'.blocks[1])
          /\ Len(last'.blocks) = 1
          /\ last'.blocks[1].height = Tip.height + 1
          /\ last'.blocks[1].previousBlockHash = Tip.hash
          /\ last'.blocks[1].body =
                <<last'.address, last'.message, last'.signature, last'.star>>
          /\ height' = Tip.height + 1]_vars

AdmissionResultWitness ==
    /\ IsSubmit /\ last.status = "fulfilled"
    /\ Len(chain) = 3
    /\ last.blocks = <<chain[3]>>
    /\ chain[3].height = 2
    /\ chain[2].previousBlockHash = chain[1].hash

---------------------------------------------------------------------------
(* Properties of validation and of the queries *)

\* the last call settled on the chain as it is now
Fresh == last.version = Version

IsValidate == last.op = "validateChain"

\* the elements of a set of numbers in ascending order
RECURSIVE Ascending(_)
Ascending(S) ==
    IF S = {} THEN <<>>
    ELSE LET m == CHOOSE x \in S : \A y \in S : x <= y
         IN  <<m>> \o Ascending(S \ {m})

RECURSIVE ExpectedPreviousHash(_, _)
ExpectedPreviousHash(c, i) ==
    IF i = 1 THEN Null
    ELSE IF BlockValidate(c[i - 1]) THEN c[i - 1].previousBlockHash
    ELSE ExpectedPreviousHash(c, i - 1)

\* C8: validateChain records a 'broken linkage' entry, with the expected
\* hash and the block, for every block of height > 0 that passes its
\* self-validation and whose previousBlockHash differs from the expected
\* previous hash carried forward from the blocks already walked.
LinkageReported ==
    (IsValidate /\ Fresh)
    => \A i \in 1..Len(chain) :
          (/\ chain[i].height > 0
           /\ BlockValidate(chain[i])
           /\ chain[i].previousBlockHash # ExpectedPreviousHash(chain, i))
          => \E k \in 1..Len(last.log) :
                /\ last.log[k].error = LinkageError
                /\ last.log[k].invalidBlock = chain[i]
                /\ last.log[k].hashOnPreviousBlock = ExpectedPreviousHash(chain, i)

ReadOps ==
    {"validateChain", "getBlockByHash", "getBlockByHeight",
     "getStarsByWalletAddress", "getChainHeight",
     "requestMessageOwnershipVerification"}

ReadsKeepChain ==
    [][last'.op \in ReadOps => (chain' = chain /\ height' = height)]_vars

ReadsKeepChainWitness ==
    /\ last.op = "getBlockByHeight"
    /\ last.status = "rejected"
    /\ last.arg = 3
    /\ Len(chain) = 3
    /\ height = 2

\* C11: the chain only grows at its end: in every step of every method each
\* block already in the chain stays at its index with its height, time, body,
\* previousBlockHash and hash, so the chain before the step is a prefix of
\* the chain after it, and the height counter does not decrease.
AppendOnly ==
    [][/\ Len(chain') >= Len(chain)
       /\ SubSeq(chain', 1, Len(chain)) = chain
       /\ \A i \in 1..Len(chain) :
             /\ chain'[i].height = chain[i].height
             /\ chain'[i].time = chain[i].time
             /\ chain'[i].body = chain[i].body
             /\ chain'[i].previousBlockHash = chain[i].previousBlockHash
             /\ chain'[i].hash = chain[i].hash
       /\ height' >= height]_vars

\* two stars were admitted after the genesis block and the chain was read
\* afterwards
AppendOnlyWitness ==
    /\ Len(chain) = 3
    /\ height = 2
    /\ last.op = "validateChain"
    /\ DecodeBody(chain[1].body).kind = "genesis"
    /\ DecodeBody(chain[2].body).kind = "star"
    /\ chain[3].height = 2

\* the stars of a list, as a set
StarSet(stars) == {stars[k] : k \in 1..Len(stars)}

\* C12: the list the caller of getStarsByWalletAddress(address) is handed
\* holds exactly the {owner, star} pairs of the blocks whose decoded payload
\* carries the address, none missing and none extra, whenever the getBData()
\* promises settle relative to one another and to the handing over.
StarsExact ==
    (last.op = "getStarsByWalletAddress" /\ last.delivered)
        => StarSet(last.seen) = StarSet(StarsFrom(chain, last.address, 1))

\* C13: getBlockByHeight(h) on a chain built by the constructor and
\* submitStar fulfils with the block of height h for every h from 0 to the
\* height counter, and rejects with 'Block Not Found!' for every other h.
ByHeightOutcome ==
    (last.op = "getBlockByHeight" /\ Fresh) =>
        IF last.arg \in 0..height
        THEN /\ last.status = "fulfilled"
             /\ Len(last.blocks) = 1
             /\ last.blocks[1].height = last.arg
             /\ last.blocks[1] = chain[last.arg + 1]
        ELSE /\ last.status = "rejected"
             /\ last.reason = "Block Not Found!"
             /\ last.blocks = <<>>
             /\ \A i \in 1..Len(chain) : chain[i].height # last.arg

\* the genesis block is found by its height on a chain of three blocks
ByHeightOutcomeWitness ==
    /\ last.op = "getBlockByHeight" /\ Fresh
    /\ Len(chain) = 3
    /\ last.arg = 0
    /\ last.status = "fulfilled"
    /\ last.blocks = <<chain[1]>>

\* C14: getBlockByHash(x) never rejects: it fulfils with the first block in
\* chain order whose hash is x, and fulfils with nothing when no block has
\* the hash x, also when the chain is empty.
ByHashOutcome ==
    (last.op = "getBlockByHash" /\ Fresh) =>
        /\ last.status = "fulfilled"
        /\ LET found == {i \in 1..Len(chain) : chain[i].hash = last.hashArg}
           IN  IF found = {} THEN last.blocks = <<>>
               ELSE \E i \in found :
                       /\ \A j \in found : i <= j
                       /\ last.blocks = <<chain[i]>>

\* two blocks of the chain have the same height or the same previousBlockHash
SameHeightOrLink ==
    \E i, j \in 1..Len(chain) :
        /\ i # j
        /\ \/ chain[i].height = chain[j].height
           \/ chain[i].previousBlockHash = chain[j].previousBlockHash

\* both callers are between their call of submitStar and its settlement
BothAwaiting == \A p \in Callers : inflight[p].state = "awaiting"

\* C15 (as claimed): two submitStar calls made without waiting for one
\* another have read the same tip and height, and the chain contains two
\* different blocks with the same height or the same previousBlockHash.
SharedTip ==
    BothAwaiting =>
        /\ \A p, q \in Callers : inflight[p].readHeight = inflight[q].readHeight
        /\ SameHeightOrLink

\* C15 (amended): in no interleaving of submitStar calls made without waiting
\* for one another do two calls read the same height counter: the calls that
\* are in flight together have read different heights and appended different
\* blocks, and no two blocks of the chain have the same height or the same
\* previousBlockHash.
NoSharedTip ==
    /\ ~SameHeightOrLink
    /\ \A p, q \in Callers :
          (p # q /\ inflight[p].blocks # <<>> /\ inflight[q].blocks # <<>>)
              => /\ inflight[p].readHeight # inflight[q].readHeight
                 /\ inflight[p].blocks # inflight[q].blocks

\* both calls are in flight at once and each has appended its block
NoSharedTipWitness ==
    /\ BothAwaiting
    /\ Len(chain) = 3
    /\ \E p, q \in Callers :
          /\ inflight[p].readHeight = 0 /\ inflight[p].blocks = <<chain[2]>>
          /\ inflight[q].readHeight = 1 /\ inflight[q].blocks = <<chain[3]>>

\* C16: on a chain built by the constructor and submitStar, whenever the
\* chain is not empty a block whose height is the height counter is in it and
\* has a hash, so that _addBlock would link the next block to it and not take
\* its 'no previous block' branch, and no block of height > 0 is in the
\* chain without a previousBlockHash.
TipPresent ==
    Len(chain) > 0 =>
        /\ FindByHeight(chain, height) # 0
        /\ chain[FindByHeight(chain, height)].hash # Null
        /\ LinkTo(chain, height, NewBlock(StarData(A1, Null, Null, S1)))
              = chain[FindByHeight(chain, height)].hash
        /\ \A k \in 1..Len(chain) :
              chain[k].height > 0 => chain[k].previousBlockHash # Null

\* two stars were admitted, each linked to the block found at the height
\* counter
TipPresentWitness ==
    /\ Len(chain) = 3
    /\ IsSubmit /\ last.status = "fulfilled"
    /\ FindByHeight(chain, height) = 3
    /\ chain[2].previousBlockHash = chain[1].hash
    /\ chain[3].previousBlockHash = chain[2].hash
    /\ chain[3].previousBlockHash # Null

\* C17: every call of submitStar, getBlockByHash, getBlockByHeight,
\* getStarsByWalletAddress, validateChain, getChainHeight and
\* requestMessageOwnershipVerification settles, by fulfilling or by
\* rejecting: once the handler of a call and its continuations have run, its
\* promise is not pending.
EveryCallSettles == last.status \in {"fulfilled", "rejected"}

\* C18: every block submitStar admits carries a message whose timestamp t
\* satisfies 0 <= (clock reading of the submission - t) < 300, so a message
\* dated after the clock reading is not admitted.
AdmittedWithinSpan ==
    (IsSubmit /\ last.status = "fulfilled") =>
        /\ ~MessageTime(last.message).nan
        /\ 0 <= Elapsed
        /\ Elapsed < Window

\* C19: submitStar keeps no record of the messages it has admitted: a step
\* that submits again the address, message and signature of the submission
\* just admitted, while clock reading - timestamp < 300, is admitted as
\* well; it appends one block, different from the block admitted before and
\* carrying the same payload fields, and it is not rejected.
ResubmissionAdmitted ==
    [][(/\ IsSubmit /\ last.status = "fulfilled"
        /\ last'.op = "submitStar"
        /\ last' # last
        /\ last'.address = last.address
        /\ last'.message = last.message
        /\ last'.signature = last.signature
        /\ last'.currentTime - MessageTime(last.message).n < Window)
       => /\ last'.status = "fulfilled"
          /\ Len(chain') = Len(chain) + 1
          /\ SubSeq(chain', 1, Len(chain)) = chain
          /\ last'.blocks = <<chain'[Len(chain')]>>
          /\ last'.blocks # last.blocks
          /\ \A i \in 1..Len(chain) : chain[i] # chain'[Len(chain')]
          /\ DecodeBody(chain'[Len(chain')].body).message = last.message
          /\ DecodeBody(chain'[Len(chain')].body).address = last.address
          /\ DecodeBody(chain'[Len(chain')].body).signature = last.signature]_vars

\* one challenge, answered twice by the identity it was issued to, has two
\* blocks in the chain
ResubmissionAdmittedWitness ==
    /\ Len(chain) = 3
    /\ IsSubmit /\ last.status = "fulfilled"
    /\ last.issuedFor = last.address
    /\ DecodeBody(chain[2].body).message = last.message
    /\ DecodeBody(chain[3].body).message = last.message
    /\ DecodeBody(chain[2].body).signature = DecodeBody(chain[3].body).signature
    /\ chain[2] # chain[3]
    /\ last.blocks = <<chain[3]>>

=============================================================================
